---------------------------- MODULE Spec2Model ----------------------------
(***************************************************************************)
(* Candidate-to-requirement matching engine of anshin_theme                *)
(* (anshin_theme/api/candidate_matching.py).                               *)
(*                                                                         *)
(* Dates are day numbers (integers); a Python None is the empty sequence   *)
(* and a present value v is <<v>>.  A Python exception leaving a function  *)
(* is the value "RAISE" (or a record with raised = TRUE).                  *)
(***************************************************************************)
EXTENDS Integers, Sequences, FiniteSets, TLC

VARIABLES
    call,                \* the last direct call of one of the evaluators
    db,                  \* the record store: requirement R1, its skills, employees
    today,               \* getdate() / CURDATE()
    pc,                  \* position inside get_matched_candidates
    requirement_id,      \* argument of get_matched_candidates
    req,                 \* frappe.db.get_value(...) result (None or a record)
    req_skills,          \* get_requirement_skills(...) result
    employees,           \* get_employees_with_skills() result
    idx,                 \* number of employees the for loop has taken
    tiers,               \* tier returned for each employee taken so far
    matched_candidates,  \* the four buckets
    result,              \* value returned to the caller (None while running)
    requirements,        \* the list get_all_requirements builds
    listing,             \* value get_all_requirements returned (None before)
    previous             \* id and result of an earlier get_matched_candidates run

\* what get_matched_candidates leaves alone
others == <<requirements, listing, previous>>

vars == <<call, db, today, pc, requirement_id, req, req_skills, employees,
          idx, tiers, matched_candidates, result, others>>

pipeVars == <<db, today, pc, requirement_id, req, req_skills, employees,
              idx, tiers, matched_candidates, result, others>>

---------------------------------------------------------------------------
(* Bounds of the model *)

MaxCount == 4        \* each of the five skill counts ranges over 0..MaxCount
MaxYears == 6        \* years of experience range over 0..MaxYears
MaxAge == 9          \* ages and age bounds range over 0..MaxAge
MaxDay == 5          \* dates range over 0..MaxDay
MaxAvail == 3        \* minimum_availability ranges over 0..MaxAvail
MaxEmployees == 2    \* active employees in the store
MaxRows == 2         \* data rows of the nationality sheet

---------------------------------------------------------------------------
(* Python values *)

None == <<>>
Some(v) == <<v>>
Val(o) == o[1]
Opt(S) == {None} \cup {Some(v) : v \in S}

Abs(n) == IF n < 0 THEN -n ELSE n

ProfLevels == 1..3
SkillNames == {"A", "B"}

---------------------------------------------------------------------------
(* check_age_match: a comparison of None with an int raises TypeError;     *)
(* the chained comparisons and the `or` short-circuit left to right.       *)

\* faulty variant: tolerance of 3 years below the minimum
check_age_match_wide(emp_age, min_age, max_age) ==
    IF emp_age = None THEN "FAIL"
    ELSE IF min_age = None THEN "RAISE"
    ELSE LET a == Val(emp_age)
             lo == Val(min_age)
         IN  IF lo <= a /\ max_age = None THEN "RAISE"
             ELSE IF lo <= a /\ a <= Val(max_age) THEN "EXACT"
             ELSE IF (lo - 3) <= a /\ a < lo THEN "POTENTIAL"
             ELSE IF max_age = None THEN "RAISE"
             ELSE IF Val(max_age) < a /\ a <= Val(max_age) + 2 THEN "POTENTIAL"
             ELSE "FAIL"

check_age_match(emp_age, min_age, max_age) ==
    IF emp_age = None THEN "FAIL"
    ELSE IF min_age = None THEN "RAISE"
    ELSE LET a == Val(emp_age)
             lo == Val(min_age)
         IN  IF lo <= a /\ max_age = None THEN "RAISE"
             ELSE IF lo <= a /\ a <= Val(max_age) THEN "EXACT"
             ELSE IF (lo - 2) <= a /\ a < lo THEN "POTENTIAL"
             ELSE IF max_age = None THEN "RAISE"
             ELSE IF Val(max_age) < a /\ a <= Val(max_age) + 2 THEN "POTENTIAL"
             ELSE "FAIL"

---------------------------------------------------------------------------
(* match_single_skill: next(...) takes the first employee row of that name *)

\* faulty variant: the last row of that name
LastRow(emp_skills, name) ==
    LET hits == {i \in 1..Len(emp_skills) : emp_skills[i].skill = name}
    IN  IF hits = {} THEN None
        ELSE Some(emp_skills[CHOOSE i \in hits : \A j \in hits : j <= i])

FirstRow(emp_skills, name) ==
    LET hits == {i \in 1..Len(emp_skills) : emp_skills[i].skill = name}
    IN  IF hits = {} THEN None
        ELSE Some(emp_skills[CHOOSE i \in hits : \A j \in hits : i <= j])

\* faulty variant: 'near' tested before 'exceeds' and 'exact'
skill_status_near_first(emp_skill, req_skill) ==
    LET years_diff == emp_skill.years - req_skill.years
        prof_diff == emp_skill.prof_level - req_skill.prof
    IN  IF Abs(prof_diff) <= 1 /\ Abs(years_diff) <= 1 THEN "near"
        ELSE IF years_diff > 2 /\ emp_skill.prof_level >= req_skill.prof THEN "exceeds"
        ELSE IF emp_skill.prof_level >= req_skill.prof
                /\ 0 <= years_diff /\ years_diff <= 2 THEN "exact"
        ELSE "below"

\* faulty variant: exact only up to one year above the requirement
skill_status_narrow_exact(emp_skill, req_skill) ==
    LET years_diff == emp_skill.years - req_skill.years
        prof_diff == emp_skill.prof_level - req_skill.prof
    IN  IF years_diff > 2 /\ emp_skill.prof_level >= req_skill.prof THEN "exceeds"
        ELSE IF emp_skill.prof_level >= req_skill.prof
                /\ 0 <= years_diff /\ years_diff <= 1 THEN "exact"
        ELSE IF Abs(prof_diff) <= 1 /\ Abs(years_diff) <= 1 THEN "near"
        ELSE "below"

skill_status(emp_skill, req_skill) ==
    LET years_diff == emp_skill.years - req_skill.years
        prof_diff == emp_skill.prof_level - req_skill.prof
    IN  IF years_diff > 2 /\ emp_skill.prof_level >= req_skill.prof THEN "exceeds"
        ELSE IF emp_skill.prof_level >= req_skill.prof
                /\ 0 <= years_diff /\ years_diff <= 2 THEN "exact"
        ELSE IF Abs(prof_diff) <= 1 /\ Abs(years_diff) <= 1 THEN "near"
        ELSE "below"

match_single_skill(req_skill, emp_skills, skill_type) ==
    LET emp_skill == FirstRow(emp_skills, req_skill.name)
    IN  IF emp_skill = None
        THEN [name |-> req_skill.name, reqYears |-> req_skill.years,
              reqProf |-> req_skill.prof, empYears |-> 0, empProf |-> 0,
              status |-> "missing", type |-> skill_type]
        ELSE [name |-> req_skill.name, reqYears |-> req_skill.years,
              reqProf |-> req_skill.prof, empYears |-> Val(emp_skill).years,
              empProf |-> Val(emp_skill).prof_level,
              status |-> skill_status(Val(emp_skill), req_skill),
              type |-> skill_type]

---------------------------------------------------------------------------
(* calculate_tier.  reqTotal * 0.8 and reqTotal * 0.5 are binary floating  *)
(* point products in the source; for every reqTotal up to 10000 and every  *)
(* count up to reqTotal the float comparison agrees with the exact one     *)
(* (10 * count >= 8 * reqTotal, 10 * count >= 5 * reqTotal).               *)

\* faulty variant: an empty requirement never meets the threshold
skill_match_80_percent_nonzero(reqExceeds, reqExact, reqNear, reqTotal) ==
    reqTotal > 0 /\ (reqExceeds + reqExact + reqNear) * 10 >= reqTotal * 8

\* faulty variant: a threshold of 70 percent
skill_match_70_percent(reqExceeds, reqExact, reqNear, reqTotal) ==
    (reqExceeds + reqExact + reqNear) * 10 >= reqTotal * 7

skill_match_80_percent(reqExceeds, reqExact, reqNear, reqTotal) ==
    (reqExceeds + reqExact + reqNear) * 10 >= reqTotal * 8

\* faulty variant: no forced ceiling for contract-limited candidates
calculate_tier_no_ceiling(reqExceeds, reqExact, reqNear, reqBelow, reqMissing, reqTotal, age_status, contract_status) ==
    IF reqExceeds * 10 >= reqTotal * 5 THEN "EXCEEDS"
    ELSE IF (reqExceeds + reqExact) = reqTotal THEN "EXACT"
    ELSE IF (reqExceeds + reqExact + reqNear) = reqTotal THEN "NEAR"
    ELSE IF skill_match_80_percent(reqExceeds, reqExact, reqNear, reqTotal)
            /\ age_status \in {"EXACT", "POTENTIAL"} THEN "POTENTIAL"
    ELSE "NOT_SHOWN"

\* faulty variant: EXACT tested before EXCEEDS
calculate_tier_exact_first(reqExceeds, reqExact, reqNear, reqBelow, reqMissing, reqTotal, age_status, contract_status) ==
    IF contract_status = "POTENTIAL"
    THEN IF skill_match_80_percent(reqExceeds, reqExact, reqNear, reqTotal)
            /\ age_status \in {"EXACT", "POTENTIAL"}
         THEN "POTENTIAL" ELSE "NOT_SHOWN"
    ELSE IF (reqExceeds + reqExact) = reqTotal THEN "EXACT"
    ELSE IF reqExceeds * 10 >= reqTotal * 5 THEN "EXCEEDS"
    ELSE IF (reqExceeds + reqExact + reqNear) = reqTotal THEN "NEAR"
    ELSE IF skill_match_80_percent(reqExceeds, reqExact, reqNear, reqTotal)
            /\ age_status \in {"EXACT", "POTENTIAL"} THEN "POTENTIAL"
    ELSE "NOT_SHOWN"

\* faulty variant: only an age inside the range is acceptable for POTENTIAL
calculate_tier_age_strict(reqExceeds, reqExact, reqNear, reqBelow, reqMissing, reqTotal, age_status, contract_status) ==
    IF contract_status = "POTENTIAL"
    THEN IF skill_match_80_percent(reqExceeds, reqExact, reqNear, reqTotal)
            /\ age_status = "EXACT"
         THEN "POTENTIAL" ELSE "NOT_SHOWN"
    ELSE IF reqExceeds * 10 >= reqTotal * 5 THEN "EXCEEDS"
    ELSE IF (reqExceeds + reqExact) = reqTotal THEN "EXACT"
    ELSE IF (reqExceeds + reqExact + reqNear) = reqTotal THEN "NEAR"
    ELSE IF skill_match_80_percent(reqExceeds, reqExact, reqNear, reqTotal)
            /\ age_status = "EXACT" THEN "POTENTIAL"
    ELSE "NOT_SHOWN"

calculate_tier(reqExceeds, reqExact, reqNear, reqBelow, reqMissing, reqTotal, age_status, contract_status) ==
    IF contract_status = "POTENTIAL"
    THEN IF skill_match_80_percent(reqExceeds, reqExact, reqNear, reqTotal)
            /\ age_status \in {"EXACT", "POTENTIAL"}
         THEN "POTENTIAL" ELSE "NOT_SHOWN"
    ELSE IF reqExceeds * 10 >= reqTotal * 5 THEN "EXCEEDS"
    ELSE IF (reqExceeds + reqExact) = reqTotal THEN "EXACT"
    ELSE IF (reqExceeds + reqExact + reqNear) = reqTotal THEN "NEAR"
    ELSE IF skill_match_80_percent(reqExceeds, reqExact, reqNear, reqTotal)
            /\ age_status \in {"EXACT", "POTENTIAL"} THEN "POTENTIAL"
    ELSE "NOT_SHOWN"

---------------------------------------------------------------------------
(* check_contract_availability.  str(date) is the tagged pair DateStr.     *)

DateStr(d) == <<"date", d>>

FutureTooSoon(future_contract_start, req_start, min_avail_days) ==
    /\ future_contract_start # None
    /\ Val(future_contract_start) - req_start < min_avail_days

\* faulty variant: the days are not clamped at 0
ContractInfo_no_clamp(contract_end, now) ==
    [hasContract |-> TRUE,
     endsOn |-> DateStr(contract_end),
     availableFrom |-> DateStr(contract_end),
     daysUntilAvailable |-> contract_end - now]

\* lines 255-262
ContractInfo(contract_end, now) ==
    [hasContract |-> TRUE,
     endsOn |-> DateStr(contract_end),
     availableFrom |-> DateStr(contract_end),
     daysUntilAvailable |-> IF contract_end > now THEN contract_end - now ELSE 0]

\* faulty variant: the future contract is not checked when a contract is active
check_contract_availability_no_future(active_contract_end, future_contract_start, requirement_start_date, minimum_availability, now) ==
    LET req_start == IF requirement_start_date # None
                     THEN Val(requirement_start_date) ELSE now
        min_avail_days == IF minimum_availability # None /\ Val(minimum_availability) # 0
                          THEN Val(minimum_availability) ELSE 0
        acceptable_window_end == req_start + min_avail_days
    IN  IF active_contract_end = None
        THEN IF FutureTooSoon(future_contract_start, req_start, min_avail_days)
             THEN [status |-> "EXCLUDED",
                   info |-> Some([reason |-> "Future contract starts too soon"])]
             ELSE [status |-> "AVAILABLE", info |-> None]
        ELSE LET contract_end == Val(active_contract_end)
             IN  IF contract_end >= acceptable_window_end
                 THEN [status |-> "EXCLUDED",
                       info |-> Some([reason |-> "Active contract too long"])]
                 ELSE [status |-> "POTENTIAL",
                       info |-> Some(ContractInfo(contract_end, now))]

\* faulty variant: a contract ending exactly at the window end is accepted
check_contract_availability_strict(active_contract_end, future_contract_start, requirement_start_date, minimum_availability, now) ==
    LET req_start == IF requirement_start_date # None
                     THEN Val(requirement_start_date) ELSE now
        min_avail_days == IF minimum_availability # None /\ Val(minimum_availability) # 0
                          THEN Val(minimum_availability) ELSE 0
        acceptable_window_end == req_start + min_avail_days
    IN  IF active_contract_end = None
        THEN IF FutureTooSoon(future_contract_start, req_start, min_avail_days)
             THEN [status |-> "EXCLUDED",
                   info |-> Some([reason |-> "Future contract starts too soon"])]
             ELSE [status |-> "AVAILABLE", info |-> None]
        ELSE LET contract_end == Val(active_contract_end)
             IN  IF contract_end > acceptable_window_end
                 THEN [status |-> "EXCLUDED",
                       info |-> Some([reason |-> "Active contract too long"])]
                 ELSE IF FutureTooSoon(future_contract_start, req_start, min_avail_days)
                 THEN [status |-> "EXCLUDED",
                       info |-> Some([reason |-> "Future contract interferes"])]
                 ELSE [status |-> "POTENTIAL",
                       info |-> Some(ContractInfo(contract_end, now))]

check_contract_availability(active_contract_end, future_contract_start, requirement_start_date, minimum_availability, now) ==
    LET req_start == IF requirement_start_date # None
                     THEN Val(requirement_start_date) ELSE now
        min_avail_days == IF minimum_availability # None /\ Val(minimum_availability) # 0
                          THEN Val(minimum_availability) ELSE 0
        acceptable_window_end == req_start + min_avail_days
    IN  IF active_contract_end = None
        THEN IF FutureTooSoon(future_contract_start, req_start, min_avail_days)
             THEN [status |-> "EXCLUDED",
                   info |-> Some([reason |-> "Future contract starts too soon"])]
             ELSE [status |-> "AVAILABLE", info |-> None]
        ELSE LET contract_end == Val(active_contract_end)
             IN  IF contract_end >= acceptable_window_end
                 THEN [status |-> "EXCLUDED",
                       info |-> Some([reason |-> "Active contract too long"])]
                 ELSE IF FutureTooSoon(future_contract_start, req_start, min_avail_days)
                 THEN [status |-> "EXCLUDED",
                       info |-> Some([reason |-> "Future contract interferes"])]
                 ELSE [status |-> "POTENTIAL",
                       info |-> Some(ContractInfo(contract_end, now))]

---------------------------------------------------------------------------
(* match_employee_to_requirement.  Beside the returned (candidate, tier),  *)
(* the result lists the evaluators the call invoked, in order.             *)

MatchAll(skills, emp_skills, skill_type) ==
    [i \in 1..Len(skills) |-> match_single_skill(skills[i], emp_skills, skill_type)]

CountStatus(matches, statuses) ==
    Cardinality({i \in 1..Len(matches) : matches[i].status \in statuses})

NotShown(invoked) ==
    [raised |-> FALSE, candidate |-> None, tier |-> "NOT_SHOWN", invoked |-> invoked]

Raised(invoked) ==
    [raised |-> TRUE, candidate |-> None, tier |-> "NOT_SHOWN", invoked |-> invoked]

\* faulty variant: the required counts are tallied over every skill match
SkillCounts_all(required_matches, preferred_matches) ==
    LET all == required_matches \o preferred_matches
    IN  [reqExceeds |-> CountStatus(all, {"exceeds"}),
         reqExact |-> CountStatus(all, {"exact"}),
         reqNear |-> CountStatus(all, {"near"}),
         reqBelow |-> CountStatus(all, {"below"}),
         reqMissing |-> CountStatus(all, {"missing"}),
         prefMatched |-> CountStatus(preferred_matches, {"exceeds", "exact", "near"})]

\* lines 362-371
SkillCounts(required_matches, preferred_matches) ==
    [reqExceeds |-> CountStatus(required_matches, {"exceeds"}),
     reqExact |-> CountStatus(required_matches, {"exact"}),
     reqNear |-> CountStatus(required_matches, {"near"}),
     reqBelow |-> CountStatus(required_matches, {"below"}),
     reqMissing |-> CountStatus(required_matches, {"missing"}),
     prefMatched |-> CountStatus(preferred_matches, {"exceeds", "exact", "near"})]

\* faulty variant: POTENTIAL also needs every preferred skill to match
TierFromCounts_pref_gate(c, reqTotal, prefTotal, age_status, contract_status) ==
    LET t == calculate_tier(c.reqExceeds, c.reqExact, c.reqNear, c.reqBelow,
                            c.reqMissing, reqTotal, age_status, contract_status)
    IN  IF t = "POTENTIAL" /\ c.prefMatched < prefTotal THEN "NOT_SHOWN" ELSE t

\* lines 373-382: prefMatched and prefTotal are not passed on
TierFromCounts(c, reqTotal, prefTotal, age_status, contract_status) ==
    calculate_tier(c.reqExceeds, c.reqExact, c.reqNear, c.reqBelow,
                   c.reqMissing, reqTotal, age_status, contract_status)

\* faulty variant: preferred matches first
AllSkillMatches_pref_first(required_matches, preferred_matches) ==
    preferred_matches \o required_matches

\* line 384
AllSkillMatches(required_matches, preferred_matches) ==
    required_matches \o preferred_matches

ScoreSkills(employee, requirement, skills, age_status, contract) ==
    LET required_matches == MatchAll(skills.required, employee.skills, "required")
        preferred_matches == MatchAll(skills.preferred, employee.skills, "preferred")
        c == SkillCounts(required_matches, preferred_matches)
        tier == TierFromCounts(c, Len(required_matches), Len(preferred_matches),
                               age_status, contract.status)
        candidate == [id |-> employee.employee,
                      name |-> employee.employee_name,
                      age |-> employee.age,
                      nationality |-> employee.nationality,
                      ageStatus |-> IF age_status = "POTENTIAL"
                                    THEN Some("Within +-2 tolerance") ELSE None,
                      reqExceeds |-> c.reqExceeds,
                      reqExact |-> c.reqExact,
                      reqNear |-> c.reqNear,
                      reqBelow |-> c.reqBelow,
                      reqMissing |-> c.reqMissing,
                      prefMatched |-> c.prefMatched,
                      prefTotal |-> Len(preferred_matches),
                      skills |-> AllSkillMatches(required_matches, preferred_matches)]
    IN  [raised |-> FALSE,
         candidate |-> Some(IF contract.info # None
                            THEN candidate @@ [contractInfo |-> Val(contract.info)]
                            ELSE candidate),
         tier |-> tier,
         invoked |-> <<"check_age_match", "check_contract_availability">>
                     \o [i \in 1..(Len(required_matches) + Len(preferred_matches))
                            |-> "match_single_skill"]
                     \o <<"calculate_tier">>]

\* lines 332-408, after the nationality gate
AfterNationalityGate(employee, requirement, skills, now) ==
    LET age_status == check_age_match(employee.age, requirement.minimum_age,
                                      requirement.maximum_age)
        contract == check_contract_availability(employee.active_contract_end,
                                                employee.future_contract_start,
                                                requirement.start_date,
                                                requirement.minimum_availability, now)
    IN  IF age_status = "RAISE" THEN Raised(<<"check_age_match">>)
        ELSE IF age_status = "FAIL" THEN NotShown(<<"check_age_match">>)
        ELSE IF contract.status = "EXCLUDED"
        THEN NotShown(<<"check_age_match", "check_contract_availability">>)
        ELSE ScoreSkills(employee, requirement, skills, age_status, contract)

\* faulty variant: the nationality gate is missing
match_employee_no_nationality_gate(employee, requirement, skills, now) ==
    AfterNationalityGate(employee, requirement, skills, now)

\* faulty variant: the age is evaluated before the nationality is compared
match_employee_age_first(employee, requirement, skills, now) ==
    LET age_status == check_age_match(employee.age, requirement.minimum_age,
                                      requirement.maximum_age)
    IN  IF age_status = "RAISE" THEN Raised(<<"check_age_match">>)
        ELSE IF age_status = "FAIL" THEN NotShown(<<"check_age_match">>)
        ELSE IF employee.nationality # requirement.nationality
        THEN NotShown(<<"check_age_match">>)
        ELSE AfterNationalityGate(employee, requirement, skills, now)

match_employee_to_requirement(employee, requirement, skills, now) ==
    IF employee.nationality # requirement.nationality THEN NotShown(<<>>)
    ELSE AfterNationalityGate(employee, requirement, skills, now)

---------------------------------------------------------------------------
(* The record store and get_employees_with_skills / get_requirement_skills *)

SetMax(S) == CHOOSE x \in S : \A y \in S : y <= x
SetMin(S) == CHOOSE x \in S : \A y \in S : x <= y

\* SELECT MAX(end_date) ... WHERE docstatus = 1 AND end_date >= CURDATE()
active_contract_end_of(contracts, now) ==
    LET ends == {c.end_date : c \in {d \in contracts : d.docstatus = 1 /\ d.end_date >= now}}
    IN  IF ends = {} THEN None ELSE Some(SetMax(ends))

\* SELECT MIN(start_date) ... WHERE docstatus = 1 AND start_date > CURDATE()
future_contract_start_of(contracts, now) ==
    LET starts == {c.start_date : c \in {d \in contracts : d.docstatus = 1 /\ d.start_date > now}}
    IN  IF starts = {} THEN None ELSE Some(SetMin(starts))

get_employees_with_skills(store, now) ==
    [i \in 1..Len(store.employees) |->
        LET e == store.employees[i]
        IN  [employee |-> e.employee,
             employee_name |-> e.employee_name,
             age |-> e.age,
             nationality |-> e.nationality,
             skills |-> e.skills,
             active_contract_end |-> active_contract_end_of(e.contracts, now),
             future_contract_start |-> future_contract_start_of(e.contracts, now)]]

get_requirement_skills(store, id) ==
    [required |-> store.required_skills, preferred |-> store.preferred_skills]

\* frappe.db.get_value("Candidate Requirements", requirement_id, [...])
get_value(store, id) ==
    IF id = store.requirement_name THEN Some(store.requirement) ELSE None

EmptyBuckets == [exceeds |-> <<>>, exact |-> <<>>, near |-> <<>>, potential |-> <<>>]

Lower(tier) ==
    CASE tier = "EXCEEDS" -> "exceeds"
      [] tier = "EXACT" -> "exact"
      [] tier = "NEAR" -> "near"
      [] tier = "POTENTIAL" -> "potential"

\* faulty variant: EXACT candidates go to the exceeds bucket
Bucketed_wrong_key(buckets, tier, candidate) ==
    IF tier # "NOT_SHOWN"
    THEN [buckets EXCEPT ![IF tier = "EXACT" THEN "exceeds" ELSE Lower(tier)] =
                            Append(@, Val(candidate))]
    ELSE buckets

\* faulty variant: insert at the front of the bucket
Bucketed_prepend(buckets, tier, candidate) ==
    IF tier # "NOT_SHOWN"
    THEN [buckets EXCEPT ![Lower(tier)] = <<Val(candidate)>> \o @]
    ELSE buckets

\* lines 111-112: if tier != "NOT_SHOWN": matched_candidates[tier.lower()].append(candidate)
Bucketed(buckets, tier, candidate) ==
    IF tier # "NOT_SHOWN"
    THEN [buckets EXCEPT ![Lower(tier)] = Append(@, Val(candidate))]
    ELSE buckets

\* the f-string f"{req.minimum_age}-{req.maximum_age}"
AgeText(min_age, max_age) == <<min_age, "-", max_age>>

Failure(message) == [success |-> FALSE, message |-> message]

Success(id, r, skills, buckets) ==
    [success |-> TRUE,
     requirement |-> [id |-> id,
                      customer |-> r.customer,
                      project_name |-> r.project_name,
                      age |-> AgeText(r.minimum_age, r.maximum_age),
                      nationality |-> r.nationality,
                      positions |-> r.number_of_positions,
                      required |-> skills.required,
                      preferred |-> skills.preferred],
     matches |-> buckets]

\* faulty variant: the exception leaves the operation
Caught_reraise(message) == [exception |-> message]

\* the except clauses (lines 66-68 and 145-147); frappe.log_error is taken to
\* return normally
Caught(message) == Failure(message)

ProficiencyText(prof) ==
    CASE prof = 1 -> "No experience, but knowledgeable"
      [] prof = 2 -> "Sufficient experience available, training possible"
      [] prof = 3 -> "Experienced, available"

\* the rows of one skill query of get_all_requirements (the store holds no
\* skill_group)
ListedSkills(rows) ==
    [i \in 1..Len(rows) |->
        [skill |-> rows[i].name,
         proficiency |-> ProficiencyText(rows[i].prof),
         years |-> rows[i].years]]

\* the rows of the requirement query (the store holds no location, and its
\* requirement is a draft)
ListedRequirements(store) ==
    << [name |-> store.requirement_name,
        customer |-> store.requirement.customer,
        project_name |-> store.requirement.project_name,
        minimum_age |-> store.requirement.minimum_age,
        maximum_age |-> store.requirement.maximum_age,
        nationality |-> store.requirement.nationality,
        number_of_positions |-> store.requirement.number_of_positions] >>

\* a listed requirement after n of its two skill queries
WithSkills(store, row, n) ==
    IF n <= 0 THEN row
    ELSE IF n = 1
    THEN row @@ [required_skills |-> ListedSkills(get_requirement_skills(store, row.name).required)]
    ELSE row @@ [required_skills |-> ListedSkills(get_requirement_skills(store, row.name).required),
                 preferred_skills |-> ListedSkills(get_requirement_skills(store, row.name).preferred)]

\* the queries get_all_requirements makes: one for the list, two per requirement
Queries(store) == 1 + 2 * Len(ListedRequirements(store))

\* the list after the first n queries have returned
RequirementsAfter(store, n) ==
    IF n = 0 THEN <<>>
    ELSE [i \in 1..Len(ListedRequirements(store)) |->
             WithSkills(store, ListedRequirements(store)[i], n - 1 - 2 * (i - 1))]

Listed(rows) == [success |-> TRUE, data |-> rows]

---------------------------------------------------------------------------
(* Contents the store may hold *)

Today == 1

ReqSkillA == [name |-> "A", years |-> 2, prof |-> 2]
ReqSkillB == [name |-> "B", years |-> 1, prof |-> 1]

EmpSkillLists ==
    { <<>>,
      << [skill |-> "A", years |-> 5, prof_level |-> 3] >>,
      << [skill |-> "A", years |-> 2, prof_level |-> 2] >>,
      << [skill |-> "A", years |-> 1, prof_level |-> 1] >> }

ShortContract == [start_date |-> 0, end_date |-> 2, docstatus |-> 1]

EmployeePool ==
    [age : {None, Some(5), Some(7)},
     nationality : {"JP", "TH"},
     skills : EmpSkillLists,
     contracts : {{}, {ShortContract}}]

Requirements ==
    [minimum_age : {None, Some(4)},
     maximum_age : {Some(6)},
     nationality : {"JP"},
     customer : {"ACME"},
     project_name : {"P1"},
     number_of_positions : {1},
     start_date : {None},
     minimum_availability : {None, Some(3)}]

StoreOf(r, emps) ==
    [requirement_name |-> "R1",
     requirement |-> r,
     required_skills |-> << ReqSkillA >>,
     preferred_skills |-> << ReqSkillB >>,
     employees |-> [i \in 1..Len(emps) |->
                      [employee |-> i,
                       employee_name |-> <<"name", i>>,
                       age |-> emps[i].age,
                       nationality |-> emps[i].nationality,
                       skills |-> emps[i].skills,
                       contracts |-> emps[i].contracts]]]

RequestIds == {"R1", "RX"}

---------------------------------------------------------------------------
(* get_matched_candidates, one action per step *)

NoCall == [fn |-> "none"]

Init ==
    /\ call = NoCall
    /\ \E n \in 0..MaxEmployees :
          \E r \in Requirements, emps \in [1..n -> EmployeePool] :
              db = StoreOf(r, emps)
    /\ today = Today
    /\ pc = "idle"
    /\ requirement_id = None
    /\ req = None
    /\ req_skills = None
    /\ employees = <<>>
    /\ idx = 0
    /\ tiers = <<>>
    /\ matched_candidates = EmptyBuckets
    /\ result = None
    /\ requirements = <<>>
    /\ listing = None
    /\ previous = None

Request(id) ==
    /\ pc = "idle"
    /\ pc' = "get_req"
    /\ requirement_id' = Some(id)
    /\ UNCHANGED <<others, call, db, today, req, req_skills, employees, idx, tiers,
                   matched_candidates, result>>

\* faulty variant: the `if not req` return is missing
GetRequirement_no_check ==
    /\ pc = "get_req"
    /\ req' = get_value(db, Val(requirement_id))
    /\ pc' = "fetch"
    /\ UNCHANGED <<others, call, db, today, requirement_id, req_skills, employees, idx,
                   tiers, matched_candidates, result>>

\* lines 74-92
GetRequirement ==
    /\ pc = "get_req"
    /\ req' = get_value(db, Val(requirement_id))
    /\ IF req' = None
       THEN /\ result' = Some(Failure("Requirement not found"))
            /\ pc' = "done"
       ELSE /\ result' = result
            /\ pc' = "fetch"
    /\ UNCHANGED <<others, call, db, today, requirement_id, req_skills, employees, idx,
                   tiers, matched_candidates>>

\* faulty variant: the buckets of the earlier run are kept
FetchData_keep_buckets ==
    /\ pc = "fetch"
    /\ req_skills' = Some(get_requirement_skills(db, Val(requirement_id)))
    /\ employees' = get_employees_with_skills(db, today)
    /\ idx' = 0
    /\ pc' = "loop"
    /\ UNCHANGED <<others, call, db, today, requirement_id, req, tiers, result,
                   matched_candidates>>

\* lines 94-103
FetchData ==
    /\ pc = "fetch"
    /\ req_skills' = Some(get_requirement_skills(db, Val(requirement_id)))
    /\ employees' = get_employees_with_skills(db, today)
    /\ matched_candidates' = EmptyBuckets
    /\ idx' = 0
    /\ pc' = "loop"
    /\ UNCHANGED <<others, call, db, today, requirement_id, req, tiers, result>>

\* a store query raises (lines 74, 94, 95); caught at lines 145-147
StoreFault ==
    /\ pc \in {"get_req", "fetch"}
    /\ result' = Some(Caught("store unavailable"))
    /\ pc' = "done"
    /\ UNCHANGED <<others, call, db, today, requirement_id, req, req_skills, employees,
                   idx, tiers, matched_candidates>>

\* lines 105-112, and 145-147 when the scorer raises
LoopStep ==
    /\ pc = "loop"
    /\ idx < Len(employees)
    /\ LET emp == employees[idx + 1]
           m == match_employee_to_requirement(emp, Val(req), Val(req_skills), today)
       IN  IF m.raised
           THEN /\ result' = Some(Caught("TypeError"))
                /\ pc' = "done"
                /\ tiers' = Append(tiers, "RAISE")
                /\ UNCHANGED <<idx, matched_candidates>>
           ELSE /\ idx' = idx + 1
                /\ tiers' = Append(tiers, m.tier)
                /\ matched_candidates' = Bucketed(matched_candidates, m.tier, m.candidate)
                /\ UNCHANGED <<pc, result>>
    /\ UNCHANGED <<others, call, db, today, requirement_id, req, req_skills, employees>>

\* lines 114-143
Return ==
    /\ pc = "loop"
    /\ idx = Len(employees)
    /\ result' = Some(Success(Val(requirement_id), Val(req), Val(req_skills),
                              matched_candidates))
    /\ pc' = "done"
    /\ UNCHANGED <<others, call, db, today, requirement_id, req, req_skills, employees,
                   idx, tiers, matched_candidates>>

\* get_all_requirements (lines 11-68) as one step; the query numbered fault (if
\* any) raises, after the earlier ones have returned
GetAllRequirements ==
    /\ pc = "idle"
    /\ \E fault \in 0..Queries(db) :
          IF fault = 0
          THEN /\ requirements' = RequirementsAfter(db, Queries(db))
               /\ listing' = Some(Listed(requirements'))
          ELSE /\ requirements' = RequirementsAfter(db, fault - 1)
               /\ listing' = Some(Caught("store unavailable"))
    /\ pc' = "listed"
    /\ UNCHANGED <<call, db, today, requirement_id, req, req_skills, employees,
                   idx, tiers, matched_candidates, result, previous>>

Next ==
    \/ \E id \in RequestIds : Request(id)
    \/ GetRequirement
    \/ FetchData
    \/ StoreFault
    \/ LoopStep
    \/ Return
    \/ GetAllRequirements

Spec == Init /\ [][Next]_vars

---------------------------------------------------------------------------
(* get_matched_candidates called a second time over the same store *)

RerunPool ==
    {e \in EmployeePool : e.age # None /\ e.skills # <<>> /\ e.skills[1].years # 2}

RerunStaff == {<<>>} \cup {<<e>> : e \in RerunPool}
                 \cup {<<e1, e2>> : e1 \in RerunPool, e2 \in RerunPool}

InitRerun ==
    /\ call = NoCall
    /\ \E r \in Requirements, emps \in RerunStaff : db = StoreOf(r, emps)
    /\ today = Today
    /\ pc = "idle"
    /\ requirement_id = None
    /\ req = None
    /\ req_skills = None
    /\ employees = <<>>
    /\ idx = 0
    /\ tiers = <<>>
    /\ matched_candidates = EmptyBuckets
    /\ result = None
    /\ requirements = <<>>
    /\ listing = None
    /\ previous = None

\* the caller keeps the result and calls again; the store and the date stay,
\* the locals of the finished call are whatever it left
Again ==
    /\ pc = "done"
    /\ previous = None
    /\ previous' = Some([id |-> Val(requirement_id), result |-> Val(result)])
    /\ pc' = "idle"
    /\ result' = None
    /\ tiers' = <<>>
    /\ UNCHANGED <<call, db, today, requirement_id, req, req_skills, employees,
                   idx, matched_candidates, requirements, listing>>

NextRerun ==
    \/ \E id \in RequestIds : Request(id)
    \/ GetRequirement
    \/ FetchData
    \/ StoreFault
    \/ LoopStep
    \/ Return
    \/ Again

SpecRerun == InitRerun /\ [][NextRerun]_vars

---------------------------------------------------------------------------
(* The evaluators called directly, over all inputs within the bounds        *)

Counts == 0..MaxCount
Ages == 0..MaxAge
Days == 0..MaxDay
Years == 0..MaxYears

ReqSkillRows == [name : SkillNames, years : Years, prof : ProfLevels]
EmpSkillRows == [skill : SkillNames, years : Years, prof_level : ProfLevels]
\* a second row, to have rows before and after the one that is looked up
EdgeSkillRows == [skill : SkillNames, years : {0, MaxYears}, prof_level : {1, 3}]

InitFn ==
    /\ call = NoCall
    /\ db = StoreOf(CHOOSE r \in Requirements : r.minimum_age # None, <<>>)
    /\ today = Today
    /\ pc = "idle"
    /\ requirement_id = None
    /\ req = None
    /\ req_skills = None
    /\ employees = <<>>
    /\ idx = 0
    /\ tiers = <<>>
    /\ matched_candidates = EmptyBuckets
    /\ result = None
    /\ requirements = <<>>
    /\ listing = None
    /\ previous = None

CallCalculateTier ==
    /\ call = NoCall
    /\ \E e \in Counts, x \in Counts, n \in Counts, b \in Counts, m \in Counts :
       \E age_status \in {"EXACT", "POTENTIAL", "FAIL"},
          contract_status \in {"AVAILABLE", "POTENTIAL"} :
          call' = [fn |-> "calculate_tier",
                   reqExceeds |-> e, reqExact |-> x, reqNear |-> n,
                   reqBelow |-> b, reqMissing |-> m, reqTotal |-> e + x + n + b + m,
                   age_status |-> age_status, contract_status |-> contract_status,
                   ret |-> calculate_tier(e, x, n, b, m, e + x + n + b + m,
                                          age_status, contract_status)]
    /\ UNCHANGED pipeVars

CallCheckAgeMatch ==
    /\ call = NoCall
    /\ \E emp_age \in Opt(Ages), min_age \in Opt(Ages), max_age \in Opt(Ages) :
          call' = [fn |-> "check_age_match",
                   emp_age |-> emp_age, min_age |-> min_age, max_age |-> max_age,
                   ret |-> check_age_match(emp_age, min_age, max_age)]
    /\ UNCHANGED pipeVars

CallMatchSingleSkill ==
    /\ call = NoCall
    /\ \E req_skill \in ReqSkillRows, skill_type \in {"required", "preferred"} :
       \E emp_skills \in {<<>>} \cup {<<r>> : r \in EmpSkillRows}
                         \cup {<<r1, r2>> : r1 \in EdgeSkillRows, r2 \in EmpSkillRows} :
          call' = [fn |-> "match_single_skill",
                   req_skill |-> req_skill, emp_skills |-> emp_skills,
                   skill_type |-> skill_type,
                   ret |-> match_single_skill(req_skill, emp_skills, skill_type)]
    /\ UNCHANGED pipeVars

CallCheckContractAvailability ==
    /\ call = NoCall
    /\ \E now \in Days, active_contract_end \in Opt(Days),
          future_contract_start \in Opt(Days), requirement_start_date \in Opt(Days),
          minimum_availability \in Opt(0..MaxAvail) :
          call' = [fn |-> "check_contract_availability",
                   now |-> now,
                   active_contract_end |-> active_contract_end,
                   future_contract_start |-> future_contract_start,
                   requirement_start_date |-> requirement_start_date,
                   minimum_availability |-> minimum_availability,
                   ret |-> check_contract_availability(
                               active_contract_end, future_contract_start,
                               requirement_start_date, minimum_availability, now)]
    /\ UNCHANGED pipeVars

\* inputs of match_employee_to_requirement called directly
ScorerSkillRows ==
    { [skill |-> "A", years |-> 5, prof_level |-> 3],
      [skill |-> "A", years |-> 2, prof_level |-> 2],
      [skill |-> "A", years |-> 1, prof_level |-> 1],
      [skill |-> "A", years |-> 0, prof_level |-> 1],
      [skill |-> "B", years |-> 5, prof_level |-> 3],
      [skill |-> "B", years |-> 1, prof_level |-> 1],
      [skill |-> "B", years |-> 0, prof_level |-> 3] }

ScorerSkillLists ==
    {<<>>} \cup {<<r>> : r \in ScorerSkillRows}
           \cup {<<r1, r2>> : r1 \in ScorerSkillRows, r2 \in ScorerSkillRows}

ScorerEmployees ==
    [employee : {1},
     employee_name : {<<"name", 1>>},
     age : Opt({1, 5, 7}),
     nationality : {"JP", "TH"},
     skills : ScorerSkillLists,
     active_contract_end : Opt({2, 4}),
     future_contract_start : Opt({3})]

RequiredLists == {<<>>, <<ReqSkillA>>, <<ReqSkillA, ReqSkillB>>, <<ReqSkillB, ReqSkillA>>}
PreferredLists == {<<>>, <<ReqSkillB>>}

CallMatchEmployee ==
    /\ call = NoCall
    /\ \E employee \in ScorerEmployees, requirement \in Requirements,
          required \in RequiredLists, preferred \in PreferredLists :
          LET skills == [required |-> required, preferred |-> preferred]
          IN  call' = [fn |-> "match_employee_to_requirement",
                       employee |-> employee, requirement |-> requirement,
                       skills |-> skills, now |-> Today,
                       ret |-> match_employee_to_requirement(employee, requirement,
                                                             skills, Today)]
    /\ UNCHANGED pipeVars

\* the employees of the paired calls: those that can pass the first two gates
PairEmployees ==
    [employee : {1},
     employee_name : {<<"name", 1>>},
     age : {Some(5), Some(7)},
     nationality : {"JP"},
     skills : ScorerSkillLists,
     active_contract_end : Opt({2}),
     future_contract_start : {None}]

RequiredNames(required) == {required[i].name : i \in 1..Len(required)}

\* the rows of emp_skills that a required skill can look up
RequiredRows(emp_skills, required) ==
    LET Named(row) == row.skill \in RequiredNames(required)
    IN  SelectSeq(emp_skills, Named)

\* two calls that differ only in the preferred skill list and in the employee's
\* skills that no required skill names
CallMatchPair ==
    /\ call = NoCall
    /\ \E employee \in PairEmployees, requirement \in Requirements,
          required \in RequiredLists, preferred \in PreferredLists,
          preferred2 \in PreferredLists :
       \E skills2 \in {l \in ScorerSkillLists :
                          RequiredRows(l, required) = RequiredRows(employee.skills, required)} :
          LET s1 == [required |-> required, preferred |-> preferred]
              s2 == [required |-> required, preferred |-> preferred2]
              employee2 == [employee EXCEPT !.skills = skills2]
          IN  call' = [fn |-> "match_pair",
                       employee |-> employee, employee2 |-> employee2,
                       requirement |-> requirement, skills |-> s1, skills2 |-> s2,
                       now |-> Today,
                       ret |-> match_employee_to_requirement(employee, requirement,
                                                             s1, Today),
                       ret2 |-> match_employee_to_requirement(employee2, requirement,
                                                              s2, Today)]
    /\ UNCHANGED pipeVars

---------------------------------------------------------------------------
(* dashboard_api.get_dashboard_data: the utilization counts (steps 3 to 5). *)
(* Costs and revenue are left out; they do not enter the counts.            *)

\* lines 156-168: the contracts whose period contains today
currently_active_contracts(contracts_data, now) ==
    SelectSeq(contracts_data, LAMBDA contract :
                 contract.start_date <= now /\ now <= contract.end_date)

\* lines 195-199: set(...) of the employee ids that are not empty
billable_employee_ids(active_contracts) ==
    {Val(active_contracts[i].employee_id) :
        i \in {j \in 1..Len(active_contracts) : active_contracts[j].employee_id # None}}

\* lines 202-216
bench_employees(employees_data, billable) ==
    SelectSeq(employees_data, LAMBDA employee : employee.id \notin billable)

\* lines 219-221 and 250-254
utilization(employees_data, contracts_data, now) ==
    LET billable == billable_employee_ids(currently_active_contracts(contracts_data, now))
    IN  [billable |-> Cardinality(billable),
         bench |-> Len(bench_employees(employees_data, billable)),
         total |-> Len(employees_data)]

\* active employees (one row each: GROUP BY e.name)
DashEmployees == {<<>>, << [id |-> "E1"] >>, << [id |-> "E1"], [id |-> "E2"] >>}

\* contracts of status Active or Signed; X9 is an employee that is not active
DashContracts ==
    [employee_id : Opt({"E1", "E2", "X9"}),
     start_date : {0, 2},
     end_date : {1, 3},
     status : {"Active", "Signed"}]

\* the query returns them ORDER BY end_date ASC
DashContractLists ==
    {<<>>} \cup {<<c>> : c \in DashContracts}
           \cup {pair \in DashContracts \X DashContracts :
                     pair[1].end_date <= pair[2].end_date}

CallGetDashboardData ==
    /\ call = NoCall
    /\ \E employees_data \in DashEmployees, contracts_data \in DashContractLists,
          now \in Days :
          call' = [fn |-> "get_dashboard_data",
                   employees_data |-> employees_data,
                   contracts_data |-> contracts_data,
                   now |-> now,
                   ret |-> [utilization |-> utilization(employees_data, contracts_data, now)]]
    /\ UNCHANGED pipeVars

---------------------------------------------------------------------------
(* update_nationalities: a sheet row is the pair of its two cells, an empty *)
(* cell is None or the empty string; the Employee table maps an id to its   *)
(* custom_nationality; saving the rows numbered in `failing` raises.        *)

Falsy(cell) == cell = None \/ cell = Some("")

\* frappe.db.exists("Employee", employee_id)
exists(table, employee_id) == Val(employee_id) \in DOMAIN table

\* lines 22-39: one pass of the loop body for the sheet row numbered row_idx
ProcessRow(acc, row_idx, row, save_raises) ==
    IF Falsy(row[1]) \/ Falsy(row[2])
    THEN [acc EXCEPT !.skipped = Append(@, <<"Row", row_idx, "empty value">>)]
    ELSE IF ~exists(acc.table, row[1])
    THEN [acc EXCEPT !.skipped = Append(@, <<"Row", row_idx, "Employee not found",
                                              Val(row[1])>>)]
    ELSE IF save_raises
    THEN [acc EXCEPT !.errors = Append(@, <<"Row", row_idx, Val(row[1]), "save failed">>)]
    ELSE [acc EXCEPT !.table = [@ EXCEPT ![Val(row[1])] = Val(row[2])],
                     !.updated = @ + 1]

RECURSIVE UpdateLoop_stop_on_error(_, _, _, _)
\* faulty variant: the loop ends at the first row whose save raises
UpdateLoop_stop_on_error(rows, table, failing, n) ==
    IF n = 0
    THEN [updated |-> 0, skipped |-> <<>>, errors |-> <<>>, table |-> table]
    ELSE LET acc == UpdateLoop_stop_on_error(rows, table, failing, n - 1)
         IN  IF acc.errors # <<>> THEN acc
             ELSE ProcessRow(acc, n + 1, rows[n], n \in failing)

RECURSIVE UpdateLoop(_, _, _, _)
\* lines 15-39: the state after the first n data rows (sheet rows 2..n+1)
UpdateLoop(rows, table, failing, n) ==
    IF n = 0
    THEN [updated |-> 0, skipped |-> <<>>, errors |-> <<>>, table |-> table]
    ELSE ProcessRow(UpdateLoop(rows, table, failing, n - 1), n + 1, rows[n],
                    n \in failing)

\* lines 6-48: the returned counts, and the Employee table that is committed
update_nationalities(rows, table, failing) ==
    LET acc == UpdateLoop(rows, table, failing, Len(rows))
    IN  [ret |-> [updated |-> acc.updated, skipped |-> acc.skipped,
                  errors |-> acc.errors],
         table |-> acc.table]

EmployeeTable == [e \in {"E1", "E2"} |-> "JP"]

SheetRows ==
    {<<id, nat>> : id \in Opt({"", "E1", "E2", "E9"}), nat \in Opt({"", "TH", "VN"})}

CallUpdateNationalities ==
    /\ call = NoCall
    /\ \E n \in 0..MaxRows :
       \E rows \in [1..n -> SheetRows], failing \in SUBSET (1..n) :
          LET out == update_nationalities(rows, EmployeeTable, failing)
          IN  call' = [fn |-> "update_nationalities",
                       rows |-> rows, table |-> EmployeeTable, failing |-> failing,
                       ret |-> out.ret, saved |-> out.table]
    /\ UNCHANGED pipeVars

NextFn ==
    \/ CallGetDashboardData
    \/ CallUpdateNationalities
    \/ CallCalculateTier
    \/ CallCheckAgeMatch
    \/ CallMatchSingleSkill
    \/ CallCheckContractAvailability
    \/ CallMatchEmployee
    \/ CallMatchPair

SpecFn == InitFn /\ [][NextFn]_vars

---------------------------------------------------------------------------
(* Properties of the evaluators (checked under SpecFn) *)

IsCall(fn) == call.fn = fn

ExpectedTierAvailable(e, x, n, total, age_status) ==
    CASE 2 * e >= total -> "EXCEEDS"
      [] 2 * e < total /\ e + x = total -> "EXACT"
      [] 2 * e < total /\ e + x # total /\ e + x + n = total -> "NEAR"
      [] 2 * e < total /\ e + x # total /\ e + x + n # total
            /\ 5 * (e + x + n) >= 4 * total
            /\ age_status \in {"EXACT", "POTENTIAL"} -> "POTENTIAL"
      [] OTHER -> "NOT_SHOWN"

\* C1: with availability AVAILABLE and required_total the sum of the five counts,
\* calculate_tier returns the first matching tier in the order EXCEEDS
\* (2*exceeds >= total), EXACT (exceeds+exact = total), NEAR (exceeds+exact+near
\* = total), POTENTIAL (5*(exceeds+exact+near) >= 4*total and age status EXACT or
\* POTENTIAL), else NOT_SHOWN.
C1_TierAvailable ==
    (IsCall("calculate_tier") /\ call.contract_status = "AVAILABLE")
        => call.ret = ExpectedTierAvailable(call.reqExceeds, call.reqExact,
                                            call.reqNear, call.reqTotal,
                                            call.age_status)

\* an AVAILABLE candidate reaching POTENTIAL through the fourth rule
C1_Witness ==
    /\ IsCall("calculate_tier")
    /\ call.contract_status = "AVAILABLE"
    /\ call.reqTotal = 5 /\ call.reqExact = 4 /\ call.reqBelow = 1
    /\ call.ret = "POTENTIAL"

\* C2: with availability POTENTIAL the tier is never EXCEEDS, EXACT or NEAR; it
\* is POTENTIAL exactly when exceeds+exact+near >= 0.8 * required_total and the
\* age status is EXACT or POTENTIAL, and NOT_SHOWN otherwise.
C2_ContractCeiling ==
    (IsCall("calculate_tier") /\ call.contract_status = "POTENTIAL")
        => /\ call.ret \notin {"EXCEEDS", "EXACT", "NEAR"}
           /\ call.ret \in {"POTENTIAL", "NOT_SHOWN"}
           /\ call.ret = "POTENTIAL"
                <=> /\ 5 * (call.reqExceeds + call.reqExact + call.reqNear)
                          >= 4 * call.reqTotal
                    /\ call.age_status \in {"EXACT", "POTENTIAL"}

\* a contract-limited candidate whose every required skill exceeds
C2_Witness ==
    /\ IsCall("calculate_tier")
    /\ call.contract_status = "POTENTIAL"
    /\ call.reqTotal > 0 /\ call.reqExceeds = call.reqTotal
    /\ call.ret = "POTENTIAL"

ExpectedSkillStatus(emp_years, emp_level, req_years, req_level) ==
    LET years_diff == emp_years - req_years
        level_diff == emp_level - req_level
    IN  CASE years_diff > 2 /\ emp_level >= req_level -> "exceeds"
          [] ~(years_diff > 2) /\ emp_level >= req_level /\ years_diff >= 0 -> "exact"
          [] ~(emp_level >= req_level /\ years_diff >= 0)
                /\ Abs(level_diff) <= 1 /\ Abs(years_diff) <= 1 -> "near"
          [] OTHER -> "below"

SameName(emp_skills, name) == {i \in 1..Len(emp_skills) : emp_skills[i].skill = name}

\* C3: match_single_skill returns 'missing' with empYears = 0 and empProf = 0 when
\* no employee skill has the requirement's name; otherwise the status is the first
\* that applies of exceeds, exact, near, below for an employee skill of that name
\* (for the one such skill when the names are unique).
C3_SkillStatus ==
    IsCall("match_single_skill") =>
        LET same == SameName(call.emp_skills, call.req_skill.name)
            Expected(i) == ExpectedSkillStatus(call.emp_skills[i].years,
                                               call.emp_skills[i].prof_level,
                                               call.req_skill.years,
                                               call.req_skill.prof)
        IN  /\ call.ret.status \in {"missing", "below", "near", "exact", "exceeds"}
            /\ same = {} => /\ call.ret.status = "missing"
                            /\ call.ret.empYears = 0
                            /\ call.ret.empProf = 0
            /\ same # {} => \E i \in same : call.ret.status = Expected(i)
            /\ \A i \in same : same = {i} => call.ret.status = Expected(i)

\* a skill that meets both the 'exact' and the 'near' condition is 'exact'
C3_Witness ==
    /\ IsCall("match_single_skill")
    /\ Len(call.emp_skills) = 1
    /\ call.emp_skills[1].skill = call.req_skill.name
    /\ call.emp_skills[1].years = call.req_skill.years + 1
    /\ call.emp_skills[1].prof_level = call.req_skill.prof
    /\ call.ret.status = "exact"

ExpectedAgeStatus(age, min_age, max_age) ==
    IF min_age <= age /\ age <= max_age THEN "EXACT"
    ELSE IF (min_age - 2 <= age /\ age < min_age) \/ (max_age < age /\ age <= max_age + 2)
    THEN "POTENTIAL"
    ELSE "FAIL"

\* C4: check_age_match returns FAIL when age is absent and, for age bounds that
\* are present, always returns (no fault): EXACT inside [min, max], POTENTIAL in
\* [min-2, min) or (max, max+2], FAIL otherwise.
C4_AgeMatch ==
    IsCall("check_age_match") =>
        /\ call.emp_age = None => call.ret = "FAIL"
        /\ (call.emp_age # None /\ call.min_age # None /\ call.max_age # None)
              => call.ret = ExpectedAgeStatus(Val(call.emp_age), Val(call.min_age),
                                              Val(call.max_age))

\* an age three years below the minimum fails
C4_Witness ==
    /\ IsCall("check_age_match")
    /\ call.emp_age # None /\ call.min_age # None /\ call.max_age # None
    /\ Val(call.min_age) <= Val(call.max_age)
    /\ Val(call.emp_age) = Val(call.min_age) - 3
    /\ call.ret = "FAIL"

\* C5: check_contract_availability is EXCLUDED exactly when a future contract
\* starts fewer than minimum days after the requirement start (with or without
\* an active contract) or an active contract ends on or after requirement start
\* + minimum days; otherwise AVAILABLE without an active contract and POTENTIAL
\* with one.
C5_Availability ==
    IsCall("check_contract_availability") =>
        LET start == IF call.requirement_start_date = None THEN call.now
                     ELSE Val(call.requirement_start_date)
            days == IF call.minimum_availability = None THEN 0
                    ELSE Val(call.minimum_availability)
            tooSoon == /\ call.future_contract_start # None
                       /\ Val(call.future_contract_start) - start < days
            tooLong == /\ call.active_contract_end # None
                       /\ Val(call.active_contract_end) >= start + days
        IN  /\ (tooSoon \/ tooLong) <=> call.ret.status = "EXCLUDED"
            /\ (~tooSoon /\ ~tooLong /\ call.active_contract_end = None)
                  <=> call.ret.status = "AVAILABLE"
            /\ (~tooSoon /\ ~tooLong /\ call.active_contract_end # None)
                  <=> call.ret.status = "POTENTIAL"

\* an active contract that ends inside the window, and a future one too soon
C5_Witness ==
    /\ IsCall("check_contract_availability")
    /\ call.active_contract_end # None
    /\ call.future_contract_start # None
    /\ call.ret.status = "EXCLUDED"
    /\ call.ret.info = Some([reason |-> "Future contract interferes"])

---------------------------------------------------------------------------
(* Properties of get_matched_candidates (checked under Spec) *)

BucketNames == {"exceeds", "exact", "near", "potential"}
ShownTiers == {"EXCEEDS", "EXACT", "NEAR", "POTENTIAL"}

Succeeded == result # None /\ Val(result).success
Failed == result # None /\ ~Val(result).success

\* how many times employee id appears in a bucket
Occurrences(bucket, id) == Cardinality({k \in 1..Len(bucket) : bucket[k].id = id})

\* position of employee id in the fetched employee list
PositionOf(id) == CHOOSE i \in 1..Len(employees) : employees[i].employee = id

Mismatch(i) == employees[i].nationality # Val(req).nationality

\* C6: an employee whose nationality differs from the requirement's gets tier
\* NOT_SHOWN and is in none of the four buckets, neither while the loop runs nor
\* in the returned matches, whatever their age, contracts and skills.
C6_NationalityGate ==
    \A i \in 1..Len(employees) :
        Mismatch(i) =>
            /\ i <= Len(tiers) => tiers[i] = "NOT_SHOWN"
            /\ \A b \in BucketNames : Occurrences(matched_candidates[b], i) = 0
            /\ Succeeded =>
                  \A b \in BucketNames : Occurrences(Val(result).matches[b], i) = 0

\* a returned run with a mismatching employee who passes every other gate
C6_Witness ==
    /\ Succeeded
    /\ \E i \in 1..Len(employees) :
          /\ Mismatch(i)
          /\ employees[i].age = Some(5)
          /\ employees[i].active_contract_end = None
          /\ employees[i].skills # <<>>
          /\ tiers[i] = "NOT_SHOWN"

\* C7: in the returned matches every employee with tier EXCEEDS, EXACT, NEAR or
\* POTENTIAL appears exactly once in the bucket of the lower-cased tier and in no
\* other bucket, and an employee with tier NOT_SHOWN appears in no bucket.
C7_Bucketing ==
    Succeeded =>
        /\ Len(tiers) = Len(employees)
        /\ \A i \in 1..Len(employees) :
              \A b \in BucketNames :
                  Occurrences(Val(result).matches[b], employees[i].employee)
                      = IF tiers[i] \in ShownTiers /\ b = Lower(tiers[i]) THEN 1 ELSE 0

\* a returned run with one employee in the exact bucket and one not shown
C7_Witness ==
    /\ Succeeded
    /\ \E i, j \in 1..Len(employees) :
          /\ tiers[i] = "EXACT"
          /\ Len(Val(result).matches.exact) = 1
          /\ tiers[j] = "NOT_SHOWN"

Ordered(bucket) ==
    \A k1, k2 \in 1..Len(bucket) :
        k1 < k2 => PositionOf(bucket[k1].id) < PositionOf(bucket[k2].id)

\* C8: within each bucket the candidates are in the order of the fetched
\* employee list, at every step of the loop and in the returned matches.
C8_BucketOrder ==
    /\ \A b \in BucketNames : Ordered(matched_candidates[b])
    /\ Succeeded => \A b \in BucketNames : Ordered(Val(result).matches[b])

\* a returned bucket holding two candidates
C8_Witness ==
    /\ Succeeded
    /\ \E b \in BucketNames : Len(Val(result).matches[b]) = 2

\* C9: when evaluating one employee faults, the run is not aborted: the result
\* is a success and every employee has been given a tier.
C9_FaultIsolated ==
    (pc = "done" /\ \E i \in 1..Len(tiers) : tiers[i] = "RAISE")
        => /\ Succeeded
           /\ Len(tiers) = Len(employees)

Unresolved == requirement_id # None /\ get_value(db, Val(requirement_id)) = None

\* C10: when the requirement id does not resolve, no requirement skill and no
\* employee is fetched, no employee is scored, and the result is a failure with
\* a message and without a requirement summary or matches.
C10_NotFound ==
    Unresolved =>
        /\ pc \in {"get_req", "done"}
        /\ req_skills = None /\ employees = <<>> /\ tiers = <<>>
        /\ matched_candidates = EmptyBuckets
        /\ pc = "done" =>
              /\ Failed
              /\ DOMAIN Val(result) = {"success", "message"}

\* the request for an unknown id has returned "Requirement not found"
C10_Witness ==
    /\ Unresolved
    /\ pc = "done"
    /\ Len(db.employees) > 0
    /\ result = Some(Failure("Requirement not found"))

---------------------------------------------------------------------------
(* Further properties of the evaluators and of the scorer (under SpecFn) *)

\* the gates of a direct call of match_employee_to_requirement
CallMismatch == call.employee.nationality # call.requirement.nationality
CallAgeStatus ==
    check_age_match(call.employee.age, call.requirement.minimum_age,
                    call.requirement.maximum_age)
CallAvailability ==
    check_contract_availability(call.employee.active_contract_end,
                                call.employee.future_contract_start,
                                call.requirement.start_date,
                                call.requirement.minimum_availability, call.now).status
CallPassesGates ==
    /\ ~CallMismatch
    /\ CallAgeStatus \in {"EXACT", "POTENTIAL"}
    /\ CallAvailability \in {"AVAILABLE", "POTENTIAL"}

\* C12: with no required skills a candidate that passes the nationality, age and
\* availability gates is never NOT_SHOWN: the tier is EXCEEDS when the
\* availability is AVAILABLE and POTENTIAL when it is POTENTIAL.
C12_NoRequiredSkills ==
    (IsCall("match_employee_to_requirement") /\ call.skills.required = <<>>
        /\ CallPassesGates)
        => /\ ~call.ret.raised
           /\ call.ret.tier # "NOT_SHOWN"
           /\ CallAvailability = "AVAILABLE" => call.ret.tier = "EXCEEDS"
           /\ CallAvailability = "POTENTIAL" => call.ret.tier = "POTENTIAL"

\* a contract-limited candidate against a requirement without required skills
C12_Witness ==
    /\ IsCall("match_employee_to_requirement")
    /\ call.skills.required = <<>>
    /\ CallPassesGates
    /\ CallAvailability = "POTENTIAL"
    /\ call.ret.tier = "POTENTIAL"

RowMatches(i) ==
    /\ call.ret.empYears = call.emp_skills[i].years
    /\ call.ret.empProf = call.emp_skills[i].prof_level
    /\ call.ret.status = ExpectedSkillStatus(call.emp_skills[i].years,
                                             call.emp_skills[i].prof_level,
                                             call.req_skill.years, call.req_skill.prof)

\* C13 as claimed: with several rows of the same skill name the match is
\* computed from the last such row.
C13_LastRowWins ==
    IsCall("match_single_skill") =>
        LET same == SameName(call.emp_skills, call.req_skill.name)
        IN  same # {} => RowMatches(SetMax(same))

\* C13 as amended: with several rows of the same skill name the match is
\* computed from the first such row.
C13_FirstRowWins ==
    IsCall("match_single_skill") =>
        LET same == SameName(call.emp_skills, call.req_skill.name)
        IN  same # {} => RowMatches(SetMin(same))

\* two rows of the required name whose statuses differ
C13_Witness ==
    /\ IsCall("match_single_skill")
    /\ SameName(call.emp_skills, call.req_skill.name) = {1, 2}
    /\ call.emp_skills[1].years = 0
    /\ call.emp_skills[2].years = call.req_skill.years + 3
    /\ call.emp_skills[2].prof_level = 3
    /\ call.ret.status # "exceeds"

CallStart ==
    IF call.requirement_start_date = None THEN call.now
    ELSE Val(call.requirement_start_date)
CallMinDays ==
    IF call.minimum_availability = None THEN 0 ELSE Val(call.minimum_availability)
TooLong == Some([reason |-> "Active contract too long"])

\* C14 as claimed: an active contract that ends fewer days after the requirement
\* start than minimum_availability is EXCLUDED as 'active contract too long'.
C14_ShortContractExcluded ==
    (IsCall("check_contract_availability")
        /\ call.active_contract_end # None
        /\ Val(call.active_contract_end) >= CallStart
        /\ Val(call.active_contract_end) - CallStart < CallMinDays)
        => /\ call.ret.status = "EXCLUDED"
           /\ call.ret.info = TooLong

\* C14 as amended: an active contract is EXCLUDED as 'active contract too long'
\* exactly when it ends minimum_availability days or more after the requirement
\* start; one that ends fewer days after it is never excluded for that reason.
C14_LongContractExcluded ==
    (IsCall("check_contract_availability") /\ call.active_contract_end # None)
        => /\ Val(call.active_contract_end) - CallStart >= CallMinDays
                <=> (call.ret.status = "EXCLUDED" /\ call.ret.info = TooLong)
           /\ (Val(call.active_contract_end) - CallStart < CallMinDays
                 /\ call.future_contract_start = None)
                => call.ret.status = "POTENTIAL"

\* a contract that ends exactly minimum_availability days after the start
C14_Witness ==
    /\ IsCall("check_contract_availability")
    /\ call.active_contract_end # None
    /\ CallMinDays > 0
    /\ Val(call.active_contract_end) = CallStart + CallMinDays
    /\ call.ret.info = TooLong

\* C15 as claimed: as of today there are two candidates against the same
\* requirement, identical except for how their preferred skills match, of which
\* one is POTENTIAL and the other is not.
C15_PreferredGatesPotential ==
    \E employee \in PairEmployees, requirement \in Requirements,
       required \in RequiredLists, preferred \in PreferredLists,
       preferred2 \in PreferredLists :
       \E skills2 \in {l \in ScorerSkillLists :
                          RequiredRows(l, required) = RequiredRows(employee.skills, required)} :
          /\ match_employee_to_requirement(
                 employee, requirement,
                 [required |-> required, preferred |-> preferred], today).tier
                = "POTENTIAL"
          /\ match_employee_to_requirement(
                 [employee EXCEPT !.skills = skills2], requirement,
                 [required |-> required, preferred |-> preferred2], today).tier
                # "POTENTIAL"

\* C15 as amended: two candidates against the same requirement that are identical
\* except for how their preferred skills match are POTENTIAL together or not at
\* all: preferred skills do not influence the POTENTIAL gating.
C15_PreferredNeverGates ==
    IsCall("match_pair") =>
        (call.ret.tier = "POTENTIAL" <=> call.ret2.tier = "POTENTIAL")

\* both POTENTIAL although one matches a preferred skill and the other does not
C15_Witness ==
    /\ IsCall("match_pair")
    /\ call.ret.tier = "POTENTIAL" /\ call.ret2.tier = "POTENTIAL"
    /\ call.skills.preferred = call.skills2.preferred
    /\ Val(call.ret.candidate).prefTotal = 1
    /\ Val(call.ret.candidate).prefMatched = 1
    /\ Val(call.ret2.candidate).prefMatched = 0

\* the required entries of a candidate's skill list with one of the statuses
RequiredEntries(candidate, statuses) ==
    Cardinality({i \in 1..Len(candidate.skills) :
                    /\ candidate.skills[i].type = "required"
                    /\ candidate.skills[i].status \in statuses})

CountsOverRequired(candidate) ==
    /\ candidate.reqExceeds = RequiredEntries(candidate, {"exceeds"})
    /\ candidate.reqExact = RequiredEntries(candidate, {"exact"})
    /\ candidate.reqNear = RequiredEntries(candidate, {"near"})
    /\ candidate.reqBelow = RequiredEntries(candidate, {"below"})
    /\ candidate.reqMissing = RequiredEntries(candidate, {"missing"})

\* C16: two calls that differ only in the preferred skill list or in employee
\* skills no required skill names agree on each of the tiers EXCEEDS, EXACT and
\* NEAR, and the five counts are tallied over the required skills only.
C16_PreferredIgnored ==
    IsCall("match_pair") =>
        /\ \A t \in {"EXCEEDS", "EXACT", "NEAR"} :
              call.ret.tier = t <=> call.ret2.tier = t
        /\ call.ret.candidate # None => CountsOverRequired(Val(call.ret.candidate))
        /\ call.ret2.candidate # None => CountsOverRequired(Val(call.ret2.candidate))

\* an EXACT candidate whose preferred skill exceeds in one call and is not asked
\* for in the other
C16_Witness ==
    /\ IsCall("match_pair")
    /\ call.ret.tier = "EXACT" /\ call.ret2.tier = "EXACT"
    /\ call.skills.preferred # <<>> /\ call.skills2.preferred = <<>>
    /\ \E i \in 1..Len(Val(call.ret.candidate).skills) :
          /\ Val(call.ret.candidate).skills[i].type = "preferred"
          /\ Val(call.ret.candidate).skills[i].status = "exceeds"

\* C18: whenever check_contract_availability returns POTENTIAL its metadata has
\* hasContract = true, endsOn = availableFrom = the active contract's end date and
\* daysUntilAvailable = max(0, active_contract_end - today), never negative.
C18_PotentialMetadata ==
    (IsCall("check_contract_availability") /\ call.ret.status = "POTENTIAL")
        => /\ call.active_contract_end # None
           /\ call.ret.info # None
           /\ LET info == Val(call.ret.info)
                  ends == Val(call.active_contract_end)
              IN  /\ info.hasContract = TRUE
                  /\ info.endsOn = DateStr(ends)
                  /\ info.availableFrom = info.endsOn
                  /\ info.daysUntilAvailable
                        = (IF ends - call.now > 0 THEN ends - call.now ELSE 0)
                  /\ info.daysUntilAvailable >= 0

\* POTENTIAL with a contract that ended before today
C18_Witness ==
    /\ IsCall("check_contract_availability")
    /\ call.ret.status = "POTENTIAL"
    /\ Val(call.active_contract_end) < call.now
    /\ Val(call.ret.info).daysUntilAvailable = 0

\* C19: a candidate with a tier other than NOT_SHOWN carries contractInfo exactly
\* when the availability was POTENTIAL, a candidate with contractInfo has tier
\* POTENTIAL, and its skill list is the required matches in requirement order
\* followed by the preferred matches in requirement order.
C19_Snapshot ==
    (IsCall("match_employee_to_requirement") /\ call.ret.tier # "NOT_SHOWN")
        => /\ call.ret.candidate # None
           /\ LET c == Val(call.ret.candidate)
                  required == call.skills.required
                  preferred == call.skills.preferred
              IN  /\ "contractInfo" \in DOMAIN c <=> CallAvailability = "POTENTIAL"
                  /\ "contractInfo" \in DOMAIN c => call.ret.tier = "POTENTIAL"
                  /\ Len(c.skills) = Len(required) + Len(preferred)
                  /\ \A i \in 1..Len(required) :
                        /\ c.skills[i].name = required[i].name
                        /\ c.skills[i].type = "required"
                  /\ \A j \in 1..Len(preferred) :
                        /\ c.skills[Len(required) + j].name = preferred[j].name
                        /\ c.skills[Len(required) + j].type = "preferred"

\* a contract-limited candidate with two required and one preferred skill
C19_Witness ==
    /\ IsCall("match_employee_to_requirement")
    /\ call.ret.tier = "POTENTIAL"
    /\ "contractInfo" \in DOMAIN Val(call.ret.candidate)
    /\ Len(call.skills.required) = 2 /\ Len(call.skills.preferred) = 1

\* C20: the gates are applied in the order nationality, age, availability,
\* skills and the call stops at the first failing gate: nothing is invoked for a
\* nationality mismatch, only the age evaluator for an age FAIL, no skill
\* evaluator and no tier for an EXCLUDED availability; so an employee stopped by
\* the nationality gate never meets the fault of a null age bound.
C20_GateOrder ==
    IsCall("match_employee_to_requirement") =>
        /\ CallMismatch => (call.ret.invoked = <<>> /\ ~call.ret.raised
                            /\ call.ret.tier = "NOT_SHOWN")
        /\ (~CallMismatch /\ CallAgeStatus = "FAIL")
              => (call.ret.invoked = <<"check_age_match">>
                  /\ call.ret.tier = "NOT_SHOWN")
        /\ (~CallMismatch /\ CallAgeStatus \in {"EXACT", "POTENTIAL"}
              /\ CallAvailability = "EXCLUDED")
              => (call.ret.invoked = <<"check_age_match", "check_contract_availability">>
                  /\ call.ret.tier = "NOT_SHOWN")
        /\ call.ret.invoked # <<>> => call.ret.invoked[1] = "check_age_match"
        /\ Len(call.ret.invoked) > 1
              => call.ret.invoked[2] = "check_contract_availability"

\* a mismatching employee with an age, against a requirement without minimum age
C20_Witness ==
    /\ IsCall("match_employee_to_requirement")
    /\ CallMismatch
    /\ call.employee.age # None
    /\ call.requirement.minimum_age = None
    /\ ~call.ret.raised

---------------------------------------------------------------------------
(* Faults, and a second run *)

\* what a caller may be handed: success and, on failure, only a message
Reported(r) ==
    /\ r # None
    /\ "success" \in DOMAIN Val(r)
    /\ Val(r).success \in BOOLEAN
    /\ ~Val(r).success => /\ DOMAIN Val(r) = {"success", "message"}
                          /\ Val(r).message \in {"store unavailable", "TypeError",
                                                 "Requirement not found"}

\* C11: every fault while get_all_requirements or get_matched_candidates runs
\* (a store query that raises, a fault in scoring) ends the operation with a
\* result of success = false and a message, never with a raw exception, and a
\* failure carries neither data nor matches; an operation that met a fault does
\* not report success.
C11_FaultsReported ==
    /\ pc = "done" =>
          /\ Reported(result)
          /\ (\E i \in 1..Len(tiers) : tiers[i] = "RAISE") => ~Val(result).success
          /\ Val(result).success => (req # None /\ idx = Len(employees))
    /\ pc = "listed" =>
          /\ Reported(listing)
          /\ requirements # RequirementsAfter(db, Queries(db)) => ~Val(listing).success
          /\ Val(listing).success => Val(listing).data = RequirementsAfter(db, Queries(db))

\* the preferred-skill query raised after the list and the required skills were
\* read: the caller gets the failure and none of the rows
C11_Witness ==
    /\ pc = "listed"
    /\ Len(requirements) = 1
    /\ "required_skills" \in DOMAIN requirements[1]
    /\ "preferred_skills" \notin DOMAIN requirements[1]
    /\ listing = Some(Failure("store unavailable"))

StoreDown(r) == r = Failure("store unavailable")

---------------------------------------------------------------------------
(* Derived properties of the skill status, the counts and the tier *)

\* the employee skill row match_single_skill looked up
UsedRow == call.emp_skills[SetMin(SameName(call.emp_skills, call.req_skill.name))]
UsedYearsDiff == UsedRow.years - call.req_skill.years
UsedProfDiff == UsedRow.prof_level - call.req_skill.prof
Found == SameName(call.emp_skills, call.req_skill.name) # {}

\* C21 as claimed: a level that differs from the required level by exactly 1
\* with years that differ from the required years by exactly 1, in either
\* direction, gives the status 'near'.
C21_OffByOneIsNear ==
    (IsCall("match_single_skill") /\ Found
        /\ Abs(UsedProfDiff) = 1 /\ Abs(UsedYearsDiff) = 1)
        => call.ret.status = "near"

\* C21 as amended: a level off by exactly 1 with years off by exactly 1 gives
\* 'near', except one level above with one year above, which gives 'exact'.
C21_OffByOne ==
    (IsCall("match_single_skill") /\ Found
        /\ Abs(UsedProfDiff) = 1 /\ Abs(UsedYearsDiff) = 1)
        => call.ret.status =
              (IF UsedProfDiff = 1 /\ UsedYearsDiff = 1 THEN "exact" ELSE "near")

\* one level and one year above the requirement
C21_Witness ==
    /\ IsCall("match_single_skill") /\ Found
    /\ UsedProfDiff = 1 /\ UsedYearsDiff = 1
    /\ call.ret.status = "exact"

Rank(status) ==
    CASE status = "below" -> 0
      [] status = "near" -> 1
      [] status = "exact" -> 2
      [] status = "exceeds" -> 3

\* the status of the same call with the looked-up row one year, one level higher
StatusWithYearMore ==
    match_single_skill(call.req_skill,
                       << [UsedRow EXCEPT !.years = @ + 1] >>, call.skill_type).status
StatusWithLevelMore ==
    match_single_skill(call.req_skill,
                       << [UsedRow EXCEPT !.prof_level = @ + 1] >>, call.skill_type).status

\* C27 as claimed: for a fixed requirement skill, one more year (level fixed)
\* or one more level within 1..3 (years fixed) never lowers the status in the
\* ranking below < near < exact < exceeds.
C27_Monotone ==
    (IsCall("match_single_skill") /\ Found)
        => /\ Rank(StatusWithYearMore) >= Rank(call.ret.status)
           /\ UsedRow.prof_level < 3
                 => Rank(StatusWithLevelMore) >= Rank(call.ret.status)

\* C27 as amended: one more year never lowers the status when the employee's
\* level is at least the required level, and one more level never lowers it when
\* the employee's years are at least the required years; one level below with
\* one year above is 'near' and becomes 'below' with one more year, and one level
\* above with one year below is 'near' and becomes 'below' with one more level.
C27_MonotoneAtOrAbove ==
    (IsCall("match_single_skill") /\ Found)
        => /\ UsedProfDiff >= 0 => Rank(StatusWithYearMore) >= Rank(call.ret.status)
           /\ (UsedYearsDiff >= 0 /\ UsedRow.prof_level < 3)
                 => Rank(StatusWithLevelMore) >= Rank(call.ret.status)
           /\ (UsedProfDiff = -1 /\ UsedYearsDiff = 1)
                 => (call.ret.status = "near" /\ StatusWithYearMore = "below")
           /\ (UsedProfDiff = 1 /\ UsedYearsDiff = -1 /\ UsedRow.prof_level < 3)
                 => (call.ret.status = "near" /\ StatusWithLevelMore = "below")

\* two years above at the required level: 'exact', and 'exceeds' with one more
C27_Witness ==
    /\ IsCall("match_single_skill") /\ Found
    /\ UsedProfDiff = 0 /\ UsedYearsDiff = 2
    /\ call.ret.status = "exact"
    /\ StatusWithYearMore = "exceeds"

\* C23: in every candidate the five required counts add up to the number of
\* required skills, prefTotal is the number of preferred skills and prefMatched
\* is at most prefTotal, and the skill list has one entry per required skill and
\* one per preferred skill.
C23_CountsAddUp ==
    (IsCall("match_employee_to_requirement") /\ call.ret.candidate # None)
        => LET c == Val(call.ret.candidate)
               required == call.skills.required
               preferred == call.skills.preferred
           IN  /\ c.reqExceeds + c.reqExact + c.reqNear + c.reqBelow + c.reqMissing
                     = Len(required)
               /\ c.prefTotal = Len(preferred)
               /\ c.prefMatched <= c.prefTotal
               /\ Len(c.skills) = Len(required) + Len(preferred)
               /\ Cardinality({i \in 1..Len(c.skills) : c.skills[i].type = "required"})
                     = Len(required)
               /\ Cardinality({i \in 1..Len(c.skills) : c.skills[i].type = "preferred"})
                     = Len(preferred)

\* two required skills, one of them missing, and a matched preferred skill
C23_Witness ==
    /\ IsCall("match_employee_to_requirement") /\ call.ret.candidate # None
    /\ Len(call.skills.required) = 2 /\ Len(call.skills.preferred) = 1
    /\ Val(call.ret.candidate).reqMissing = 1
    /\ Val(call.ret.candidate).prefMatched = 1

\* the tier of the same call for an employee of another age
TierAtAge(age) ==
    match_employee_to_requirement([call.employee EXCEPT !.age = age],
                                  call.requirement, call.skills, call.now).tier

\* C24: calculate_tier is reached only with an age status of EXACT or POTENTIAL
\* and an availability of AVAILABLE or POTENTIAL, and two employees that differ
\* only in age, one inside the age range and one in the tolerance band, get the
\* same tier.
C24_AgeBandSameTier ==
    IsCall("match_employee_to_requirement") =>
        /\ (\E i \in 1..Len(call.ret.invoked) : call.ret.invoked[i] = "calculate_tier")
              => /\ CallAgeStatus \in {"EXACT", "POTENTIAL"}
                 /\ CallAvailability \in {"AVAILABLE", "POTENTIAL"}
        /\ CallAgeStatus = "EXACT" =>
              \A age \in Opt(Ages) :
                 check_age_match(age, call.requirement.minimum_age,
                                 call.requirement.maximum_age) = "POTENTIAL"
                    => TierAtAge(age) = call.ret.tier

\* an employee inside the range whose tier is POTENTIAL, and a tolerance band
\* that is not empty
C24_Witness ==
    /\ IsCall("match_employee_to_requirement")
    /\ CallAgeStatus = "EXACT"
    /\ call.ret.tier = "POTENTIAL"
    /\ \E age \in Opt(Ages) :
          check_age_match(age, call.requirement.minimum_age,
                          call.requirement.maximum_age) = "POTENTIAL"

\* C25: with availability AVAILABLE and at most 4 required skills the tier is
\* never POTENTIAL, so a POTENTIAL candidate of such a requirement is limited by
\* a contract.
C25_NoPotentialUpToFour ==
    /\ (IsCall("calculate_tier") /\ call.contract_status = "AVAILABLE"
           /\ call.reqTotal <= 4)
          => call.ret \in {"EXCEEDS", "EXACT", "NEAR", "NOT_SHOWN"}
    /\ (IsCall("match_employee_to_requirement") /\ call.ret.tier = "POTENTIAL"
           /\ Len(call.skills.required) <= 4)
          => /\ CallAvailability = "POTENTIAL"
             /\ "contractInfo" \in DOMAIN Val(call.ret.candidate)

\* three of four required skills matched, age acceptable: not shown
C25_Witness ==
    /\ IsCall("calculate_tier") /\ call.contract_status = "AVAILABLE"
    /\ call.reqTotal = 4
    /\ call.reqExceeds + call.reqExact + call.reqNear = 3
    /\ call.reqExceeds = 1
    /\ call.age_status = "EXACT"
    /\ call.ret = "NOT_SHOWN"

\* C26 as claimed: a candidate of tier EXCEEDS, EXACT or NEAR has reqBelow = 0
\* and reqMissing = 0.
C26_NoGapsAboveNear ==
    (IsCall("match_employee_to_requirement")
        /\ call.ret.tier \in {"EXCEEDS", "EXACT", "NEAR"})
        => /\ Val(call.ret.candidate).reqBelow = 0
           /\ Val(call.ret.candidate).reqMissing = 0

\* C26 as amended: a candidate of tier EXACT or NEAR has reqBelow = 0 and
\* reqMissing = 0; a candidate of tier EXCEEDS exceeds at least half of the
\* required skills and may be below or missing in the rest; so a shown candidate
\* with a below or missing required skill has tier EXCEEDS or POTENTIAL.
C26_NoGapsExactNear ==
    (IsCall("match_employee_to_requirement") /\ call.ret.candidate # None)
        => LET c == Val(call.ret.candidate)
           IN  /\ call.ret.tier \in {"EXACT", "NEAR"}
                     => (c.reqBelow = 0 /\ c.reqMissing = 0)
               /\ call.ret.tier = "EXCEEDS"
                     => 2 * RequiredEntries(c, {"exceeds"}) >= Len(call.skills.required)
               /\ (RequiredEntries(c, {"below", "missing"}) > 0
                      /\ call.ret.tier # "NOT_SHOWN")
                     => call.ret.tier \in {"EXCEEDS", "POTENTIAL"}
               /\ call.ret.tier \in {"EXACT", "NEAR"}
                     => RequiredEntries(c, {"below", "missing"}) = 0

\* an EXCEEDS candidate that lacks one of the two required skills
C26_Witness ==
    /\ IsCall("match_employee_to_requirement")
    /\ call.ret.tier = "EXCEEDS"
    /\ Len(call.skills.required) = 2
    /\ Val(call.ret.candidate).reqExceeds = 1
    /\ Val(call.ret.candidate).reqMissing = 1

\* C28: when minimum_availability is 0 or absent and the start date is absent or
\* not after today, an active contract (its end is today or later) is always
\* EXCLUDED, so the availability is never POTENTIAL and such an employee's call
\* yields no candidate and no contractInfo.
C28_ActiveAlwaysExcluded ==
    /\ (IsCall("check_contract_availability")
           /\ call.active_contract_end # None
           /\ Val(call.active_contract_end) >= call.now
           /\ CallMinDays = 0 /\ CallStart <= call.now)
          => call.ret.status = "EXCLUDED"
    /\ (IsCall("match_employee_to_requirement")
           /\ call.employee.active_contract_end # None
           /\ Val(call.employee.active_contract_end) >= call.now
           /\ call.requirement.minimum_availability \in {None, Some(0)}
           /\ (call.requirement.start_date = None
                  \/ Val(call.requirement.start_date) <= call.now))
          => /\ call.ret.candidate = None
             /\ call.ret.tier = "NOT_SHOWN"

\* a contract that ends today, against a requirement that starts today
C28_Witness ==
    /\ IsCall("check_contract_availability")
    /\ call.active_contract_end = Some(call.now)
    /\ call.requirement_start_date = Some(call.now)
    /\ call.minimum_availability = Some(0)
    /\ call.future_contract_start = None
    /\ call.ret.status = "EXCLUDED"

---------------------------------------------------------------------------
(* The dashboard counts and the nationality sheet *)

\* C22: in the result of get_dashboard_data the utilization counts satisfy
\* billable + bench = total, also when a contract whose period contains today
\* names an employee that is not among the active employees.
C22_BenchIsRest ==
    IsCall("get_dashboard_data") =>
        call.ret.utilization.billable + call.ret.utilization.bench
            = call.ret.utilization.total

\* the data rows that reach the save, and those among them whose save succeeds
Valid(i) ==
    /\ ~Falsy(call.rows[i][1]) /\ ~Falsy(call.rows[i][2])
    /\ Val(call.rows[i][1]) \in DOMAIN call.table
Saved(i) == Valid(i) /\ i \notin call.failing

RowNumbers(messages) == {messages[k][2] : k \in 1..Len(messages)}

\* C29: update_nationalities accounts for every data row exactly once: updated +
\* len(skipped) + len(errors) is the number of data rows; a row with an empty
\* value or an unknown employee is skipped and changes no employee; a row whose
\* save raises is listed in errors and the rows after it are still processed.
C29_EveryRowOnce ==
    IsCall("update_nationalities") =>
        LET n == Len(call.rows)
        IN  /\ call.ret.updated + Len(call.ret.skipped) + Len(call.ret.errors) = n
            /\ call.ret.updated = Cardinality({i \in 1..n : Saved(i)})
            /\ RowNumbers(call.ret.skipped) = {i + 1 : i \in {j \in 1..n : ~Valid(j)}}
            /\ RowNumbers(call.ret.errors)
                  = {i + 1 : i \in {j \in 1..n : Valid(j) /\ j \in call.failing}}
            /\ \A e \in DOMAIN call.table :
                  LET last == {i \in 1..n : Saved(i) /\ Val(call.rows[i][1]) = e}
                  IN  call.saved[e] = (IF last = {} THEN call.table[e]
                                       ELSE Val(call.rows[SetMax(last)][2]))

\* the first row's save raises and the second row is saved all the same
C29_Witness ==
    /\ IsCall("update_nationalities")
    /\ Len(call.rows) >= 2
    /\ Valid(1) /\ 1 \in call.failing
    /\ Saved(2)
    /\ Len(call.ret.errors) = 1
    /\ call.ret.updated = 1
    /\ call.saved[Val(call.rows[2][1])] = Val(call.rows[2][2])

============================================================================
